---- MODULE Spec2Model ----
(***************************************************************************)
(* State-machine model of api/main.py: a FastAPI application over one     *)
(* module-level psycopg2 connection `conn` and one module-level cursor    *)
(* `cur`.  The handlers are plain `def` functions, which the framework    *)
(* runs on worker threads, so several handlers can be in flight at once;  *)
(* every call on the connection (execute, commit) is one atomic step      *)
(* because psycopg2 serialises the calls of one connection.               *)
(*                                                                         *)
(* The database is modelled by what the statements of the file can        *)
(* observe: the committed rows of `urls` and `items`, the rows written    *)
(* by the connection's open transaction, and the transaction status of    *)
(* the connection (idle, in a transaction, or in a failed transaction     *)
(* that rejects every statement until it is ended).                       *)
(***************************************************************************)
EXTENDS Integers, Sequences, FiniteSets, TLC

\* Worker threads that run handlers concurrently.
NumWorkers == 2
\* Rows the items table may hold (committed or staged) before POST /item
\* is no longer offered.
MaxItems == 2
\* Requests accepted in one behaviour.
MaxRequests == 3

Workers == 1..NumWorkers

\* Request inputs.
LongUrls ==
    {"https://example.com",
     "https://example.com/p/1390813",
     "https://example.com/p/1938039"}
UrlDescs == {"d", "e"}
ItemNames == {"n1", "n2"}
ItemDescs == {"x", "y"}

VARIABLES
    urls,      \* committed rows of table urls
    items,     \* committed rows of table items, in insertion order
    txStatus,  \* transaction status of conn: "idle", "intrans", "inerror"
    txUrls,    \* rows of urls written by the open transaction
    txItems,   \* rows of items written by the open transaction
    cur,       \* result held by the module-level cursor
    pc,        \* per worker: where its handler stands
    req,       \* per worker: the request it is serving
    shortCode, \* per worker: local variable shortCode of shorten_url
    sent,      \* the request the process answered last, and its response
    nreq       \* requests accepted so far

vars == <<urls, items, txStatus, txUrls, txItems, cur, pc, req, shortCode,
          sent, nreq>>

\* hashlib.md5(longUrl.encode()).hexdigest(), tabulated for LongUrls.  The
\* last two inputs share their first ten hex characters.
Md5HexDigest(longUrl) ==
    CASE longUrl = "https://example.com" ->
           <<"c","9","8","4","d","0","6","a","a","f","b","e","c","f","6","b",
             "c","5","5","5","6","9","f","9","6","4","1","4","8","e","a","3">>
      [] longUrl = "https://example.com/p/1390813" ->
           <<"7","7","2","d","9","a","c","a","6","9","9","b","9","8","f","6",
             "c","d","5","d","3","4","2","e","5","1","5","b","1","4","7","d">>
      [] longUrl = "https://example.com/p/1938039" ->
           <<"7","7","2","d","9","a","c","a","6","9","e","3","1","0","7","4",
             "e","2","9","1","7","1","e","9","7","8","b","a","7","4","a","6">>

\* Length of the prefix kept by hexdigest()[:10].
CodeLen == 10

\* Faulty variant: the window cut out of the digest moves with the number of
\* rows stored, so the code depends on the table.
ShortCodeByTable(longUrl) ==
    SubSeq(Md5HexDigest(longUrl), 1 + Cardinality(urls), CodeLen + Cardinality(urls))

\* shortCode = hashlib.md5(longUrl.encode()).hexdigest()[:10]
ShortCode(longUrl) == SubSeq(Md5HexDigest(longUrl), 1, CodeLen)

\* A path segment that is the code of no LongUrl.
NoSuchCode == <<"0","0","0","0","0","0","0","0","0","0">>
\* The path segments GET /{shortCode} is asked for.
PathCodes == {ShortCode(u) : u \in LongUrls} \cup {NoSuchCode}

NoResult == "no_result"
NoReq == [op |-> "none"]
NoResp == [kind |-> "none"]
NoCode == <<>>

\* An unhandled exception: the framework answers 500.
Error500(exc) == [kind |-> "error500", exc |-> exc]

\* RedirectResponse(url=...)
Redirect(url) == [kind |-> "redirect", url |-> url]

\* VALUES (%s,%s) of INSERT INTO items (item_name,item_desc)
ItemRow(rq) == [item_name |-> rq.new_item_name, item_desc |-> rq.new_item_desc]

\* VALUES (%s, %s, %s) of INSERT INTO urls (shortCode, longUrl, urlDesc)
UrlRow(rq, code) == [shortCode |-> code, longUrl |-> rq.longUrl, urlDesc |-> rq.urlDesc]

----------------------------------------------------------------------------
\* Statements and connection calls.

\* CREATE TABLE IF NOT EXISTS urls (...): an existing table keeps its rows.
CreateTableIfNotExists(exists, rows) == IF exists THEN rows ELSE {}

\* Faulty variant: the table has no primary key.
NoPrimaryKey(rows, code) == FALSE

\* shortCode TEXT PRIMARY KEY: a row with this code is already visible to
\* the connection.
PrimaryKeyConflict(rows, code) == \E r \in rows : r.shortCode = code

\* Faulty variant: the statement replaces what the transaction wrote so far.
StageItemOverwrite(pending, row) == << row >>

\* INSERT INTO items: the row is appended to what the transaction wrote.
StageItem(pending, row) == Append(pending, row)

\* INSERT INTO urls: the row is added to what the transaction wrote.
StageUrl(pending, row) == pending \cup {row}

\* Faulty variant: the rows written to items are not made durable.
CommitItemsLost(committed, pending) == committed

\* conn.commit() on a transaction that did not fail: its rows are committed.
CommitItems(committed, pending) == committed \o pending
CommitUrls(committed, pending) == committed \cup pending

\* The rows a statement of the connection sees.
VisibleUrls == urls \cup txUrls
VisibleItems == items \o txItems

\* SELECT longUrl,urlDesc FROM urls WHERE shortCode = %s
SelectByCode(rows, code) ==
    IF \E r \in rows : r.shortCode = code
    THEN LET r == CHOOSE r \in rows : r.shortCode = code
         IN  << <<r.longUrl, r.urlDesc>> >>
    ELSE << >>

\* Faulty variant: the redirect takes the second column, urlDesc.
RedirectToDesc(result) == result[2]

\* result[0] of the fetched row (longUrl, urlDesc)
RedirectTarget(result) == result[1]

\* conn.commit(): ends the transaction.  A failed transaction is ended by
\* the server with a rollback and commit() raises nothing.
Commit ==
    /\ urls' = IF txStatus = "intrans" THEN CommitUrls(urls, txUrls) ELSE urls
    /\ items' = IF txStatus = "intrans" THEN CommitItems(items, txItems) ELSE items
    /\ txUrls' = {}
    /\ txItems' = << >>
    /\ txStatus' = "idle"

\* The handler of worker w ends with response r.
Respond(w, r) ==
    /\ sent' = [req |-> req[w], resp |-> r]
    /\ pc' = [pc EXCEPT ![w] = "idle"]
    /\ req' = [req EXCEPT ![w] = NoReq]
    /\ shortCode' = [shortCode EXCEPT ![w] = NoCode]

\* A request rq is answered by worker w in the step that accepts it.
RespondTo(w, rq, r) ==
    /\ sent' = [req |-> rq, resp |-> r]
    /\ UNCHANGED <<pc, req, shortCode>>

----------------------------------------------------------------------------
\* Handlers.

\* The module body has run on a new database: urls was created empty.  The
\* items table, which the file never creates, exists and is empty.
Init ==
    /\ urls = CreateTableIfNotExists(FALSE, {})
    /\ items = << >>
    /\ txStatus = "idle"
    /\ txUrls = {}
    /\ txItems = << >>
    /\ cur = NoResult
    /\ pc = [w \in Workers |-> "idle"]
    /\ req = [w \in Workers |-> NoReq]
    /\ shortCode = [w \in Workers |-> NoCode]
    /\ sent = [req |-> NoReq, resp |-> NoResp]
    /\ nreq = 0

\* GET /items: select_all_item_records, on a cursor of its own.
SelectAllItemRecords(w) ==
    /\ pc[w] = "idle"
    /\ nreq < MaxRequests
    /\ nreq' = nreq + 1
    /\ IF txStatus = "inerror"
       THEN /\ RespondTo(w, [op |-> "items"], Error500("InFailedSqlTransaction"))
            /\ UNCHANGED txStatus
       ELSE /\ RespondTo(w, [op |-> "items"], [kind |-> "rows", data |-> VisibleItems])
            /\ txStatus' = "intrans"
    /\ UNCHANGED <<urls, items, txUrls, txItems, cur>>

\* POST /item: cur.execute("INSERT INTO items ...")
InsertItemExecute(w) ==
    /\ pc[w] = "idle"
    /\ nreq < MaxRequests
    /\ Len(items) + Len(txItems) < MaxItems
    /\ nreq' = nreq + 1
    /\ cur' = NoResult
    /\ \E n \in ItemNames, d \in ItemDescs :
         LET rq == [op |-> "item", new_item_name |-> n, new_item_desc |-> d]
         IN  IF txStatus = "inerror"
             THEN /\ RespondTo(w, rq, Error500("InFailedSqlTransaction"))
                  /\ UNCHANGED <<txStatus, txItems>>
             ELSE /\ txItems' = StageItem(txItems, ItemRow(rq))
                  /\ txStatus' = "intrans"
                  /\ req' = [req EXCEPT ![w] = rq]
                  /\ pc' = [pc EXCEPT ![w] = "item_commit"]
                  /\ UNCHANGED <<sent, shortCode>>
    /\ UNCHANGED <<urls, items, txUrls>>

\* POST /item: conn.commit(); return {"success": True, ...}
InsertItemCommit(w) ==
    /\ pc[w] = "item_commit"
    /\ Commit
    /\ Respond(w, [kind |-> "success"])
    /\ UNCHANGED <<cur, nreq>>

\* POST /shorten: shortCode = hashlib.md5(...).hexdigest()[:10]
ShortenCompute(w) ==
    /\ pc[w] = "idle"
    /\ nreq < MaxRequests
    /\ nreq' = nreq + 1
    /\ \E u \in LongUrls, d \in UrlDescs :
         /\ req' = [req EXCEPT ![w] = [op |-> "shorten", longUrl |-> u, urlDesc |-> d]]
         /\ shortCode' = [shortCode EXCEPT ![w] = ShortCode(u)]
    /\ pc' = [pc EXCEPT ![w] = "shorten_execute"]
    /\ UNCHANGED <<urls, items, txStatus, txUrls, txItems, cur, sent>>

\* POST /shorten: cur.execute("INSERT INTO urls ...")
ShortenExecute(w) ==
    /\ pc[w] = "shorten_execute"
    /\ cur' = NoResult
    /\ IF txStatus = "inerror"
       THEN /\ Respond(w, Error500("InFailedSqlTransaction"))
            /\ UNCHANGED <<txStatus, txUrls, txItems>>
       ELSE IF PrimaryKeyConflict(VisibleUrls, shortCode[w])
       THEN \* the statement fails and the transaction with it
            /\ Respond(w, Error500("UniqueViolation"))
            /\ txStatus' = "inerror"
            /\ txUrls' = {}
            /\ txItems' = << >>
       ELSE /\ txUrls' = StageUrl(txUrls, UrlRow(req[w], shortCode[w]))
            /\ txStatus' = "intrans"
            /\ pc' = [pc EXCEPT ![w] = "shorten_commit"]
            /\ UNCHANGED <<txItems, req, shortCode, sent>>
    /\ UNCHANGED <<urls, items, nreq>>

\* POST /shorten: conn.commit(); return {"shortCode": shortCode}
ShortenCommit(w) ==
    /\ pc[w] = "shorten_commit"
    /\ Commit
    /\ Respond(w, [kind |-> "shortCode", shortCode |-> shortCode[w]])
    /\ UNCHANGED <<cur, nreq>>

\* GET /urls: get_all_urls, on a cursor of its own.
GetAllUrls(w) ==
    /\ pc[w] = "idle"
    /\ nreq < MaxRequests
    /\ nreq' = nreq + 1
    /\ IF txStatus = "inerror"
       THEN /\ RespondTo(w, [op |-> "urls"], Error500("InFailedSqlTransaction"))
            /\ UNCHANGED txStatus
       ELSE /\ RespondTo(w, [op |-> "urls"], [kind |-> "rows", data |-> VisibleUrls])
            /\ txStatus' = "intrans"
    /\ UNCHANGED <<urls, items, txUrls, txItems, cur>>

\* GET /{shortCode}: cur.execute("SELECT longUrl,urlDesc FROM urls WHERE ...")
GetLongUrlExecute(w) ==
    /\ pc[w] = "idle"
    /\ nreq < MaxRequests
    /\ nreq' = nreq + 1
    /\ \E c \in PathCodes :
         LET rq == [op |-> "long", shortCode |-> c]
         IN  IF txStatus = "inerror"
             THEN /\ RespondTo(w, rq, Error500("InFailedSqlTransaction"))
                  /\ cur' = NoResult
                  /\ UNCHANGED txStatus
             ELSE /\ cur' = SelectByCode(VisibleUrls, c)
                  /\ txStatus' = "intrans"
                  /\ req' = [req EXCEPT ![w] = rq]
                  /\ pc' = [pc EXCEPT ![w] = "long_fetch"]
                  /\ UNCHANGED <<sent, shortCode>>
    /\ UNCHANGED <<urls, items, txUrls, txItems>>

\* GET /{shortCode}: result = cur.fetchone(); redirect or not-found payload
GetLongUrlFetch(w) ==
    /\ pc[w] = "long_fetch"
    /\ IF cur = NoResult
       THEN \* the cursor holds no result set: fetchone() raises
            /\ Respond(w, Error500("ProgrammingError"))
            /\ UNCHANGED cur
       ELSE IF cur = << >>
       THEN /\ Respond(w, [kind |-> "not_found", error |-> "URL not found"])
            /\ UNCHANGED cur
       ELSE /\ Respond(w, Redirect(RedirectTarget(Head(cur))))
            /\ cur' = Tail(cur)
    /\ UNCHANGED <<urls, items, txStatus, txUrls, txItems, nreq>>

\* The process is started again: the old connection is closed, which rolls
\* its open transaction back, the handlers in flight are lost, and the
\* module body runs: connect, CREATE TABLE IF NOT EXISTS urls, commit.
Restart ==
    /\ urls' = CreateTableIfNotExists(TRUE, urls)
    /\ txStatus' = "idle"
    /\ txUrls' = {}
    /\ txItems' = << >>
    /\ cur' = NoResult
    /\ pc' = [w \in Workers |-> "idle"]
    /\ req' = [w \in Workers |-> NoReq]
    /\ shortCode' = [w \in Workers |-> NoCode]
    /\ sent' = [req |-> NoReq, resp |-> NoResp]
    /\ UNCHANGED <<items, nreq>>

Handler(w) ==
    \/ SelectAllItemRecords(w)
    \/ InsertItemExecute(w)
    \/ InsertItemCommit(w)
    \/ ShortenCompute(w)
    \/ ShortenExecute(w)
    \/ ShortenCommit(w)
    \/ GetAllUrls(w)
    \/ GetLongUrlExecute(w)
    \/ GetLongUrlFetch(w)

Next == Restart \/ \E w \in Workers : Handler(w)

\* Handlers run on worker threads and overlap freely.
Spec == Init /\ [][Next]_vars

\* No handler but that of worker w is in flight.
Quiet(w) == \A v \in Workers \ {w} : pc[v] = "idle"

NextSeq ==
    \/ Restart
    \/ \E w \in Workers :
          \/ Quiet(w) /\ SelectAllItemRecords(w)
          \/ Quiet(w) /\ InsertItemExecute(w)
          \/ Quiet(w) /\ InsertItemCommit(w)
          \/ Quiet(w) /\ ShortenCompute(w)
          \/ Quiet(w) /\ ShortenExecute(w)
          \/ Quiet(w) /\ ShortenCommit(w)
          \/ Quiet(w) /\ GetAllUrls(w)
          \/ Quiet(w) /\ GetLongUrlExecute(w)
          \/ Quiet(w) /\ GetLongUrlFetch(w)

\* Requests arrive one after the other: a handler runs to its end before
\* the next request is accepted.
SpecSeq == Init /\ [][NextSeq]_vars

NextItems ==
    \E w \in Workers :
        \/ InsertItemExecute(w)
        \/ InsertItemCommit(w)
        \/ SelectAllItemRecords(w)

\* Only the items endpoints are called, and their handlers overlap freely.
SpecItems == Init /\ [][NextItems]_vars

----------------------------------------------------------------------------
\* Steps that answer a request.

\* Worker w, whose handler is in flight, answers its request.
AnswersInFlight(w) ==
    /\ pc[w] # "idle"
    /\ pc'[w] = "idle"
    /\ sent'.req = req[w]

\* Request rq is answered in the step that accepts it.
AnswersAtOnce(rq) ==
    /\ nreq' = nreq + 1
    /\ pc' = pc
    /\ sent'.req = rq

\* Request rq is answered.
Answers(rq) == AnswersAtOnce(rq) \/ \E w \in Workers : req[w] = rq /\ AnswersInFlight(w)

\* The rows of a result or of a table kept in order.
Rows(seq) == {seq[i] : i \in 1..Len(seq)}

----------------------------------------------------------------------------
\* Properties.

\* C1: when the request answered last is a POST /shorten that returned
\* shortCode X for longUrl, the GET /X served next is answered with a
\* redirect to exactly that longUrl.
RoundTrip ==
    [][ sent.resp.kind = "shortCode" =>
          (Answers([op |-> "long", shortCode |-> sent.resp.shortCode])
             => sent'.resp = Redirect(sent.req.longUrl)) ]_vars

\* C1 witness: two requests were served, a POST /shorten and then the GET of
\* its code, which was answered with a redirect to the stored longUrl.
RoundTripReached ==
    /\ nreq = 2
    /\ sent.req.op = "long"
    /\ sent.resp.kind = "redirect"
    /\ \E r \in urls : r.shortCode = sent.req.shortCode /\ r.longUrl = sent.resp.url

\* C2: when the request answered last is a POST /item that returned the
\* success acknowledgment, the GET /items served next returns a collection
\* that holds a row with that name and description.
ItemListed ==
    [][ sent.resp.kind = "success" =>
          (Answers([op |-> "items"])
             => /\ sent'.resp.kind = "rows"
                /\ ItemRow(sent.req) \in Rows(sent'.resp.data)) ]_vars

\* C2 witness: two requests were served, a POST /item and then a GET /items
\* that returned one row.
ItemListedReached ==
    /\ nreq = 2
    /\ sent.req.op = "items"
    /\ sent.resp.kind = "rows"
    /\ Len(sent.resp.data) = 1

\* C3: when the request answered last is a POST /shorten that returned a
\* shortCode, a POST /shorten of the same longUrl served next returns no
\* shortCode: it fails with the primary-key violation, and urls is unchanged
\* and holds exactly the first call's row for that code.
ResubmitFails ==
    [][ sent.resp.kind = "shortCode" =>
          \A w \in Workers :
            ( /\ pc[w] = "shorten_execute"
              /\ req[w].longUrl = sent.req.longUrl
              /\ (pc'[w] = "shorten_commit" \/ AnswersInFlight(w)) )
            => /\ sent'.req = req[w]
               /\ sent'.resp = Error500("UniqueViolation")
               /\ urls' = urls
               /\ {r \in urls' : r.shortCode = sent.resp.shortCode}
                    = {UrlRow(sent.req, sent.resp.shortCode)} ]_vars

\* C3 witness: two requests were served, both POST /shorten of one longUrl
\* with different descriptions; the second failed on the primary key and the
\* stored row is the first call's.
ResubmitFailsReached ==
    /\ nreq = 2
    /\ sent.req.op = "shorten"
    /\ sent.resp = Error500("UniqueViolation")
    /\ \E r \in urls : /\ r.longUrl = sent.req.longUrl
                       /\ r.urlDesc # sent.req.urlDesc
                       /\ Cardinality(urls) = 1

\* C4: a GET /{shortCode} for a code that no row of urls has is answered
\* with the not-found payload, and leaves urls and items unchanged.
UnknownCodeNotFound ==
    [][ \A c \in PathCodes :
          ( /\ \A r \in VisibleUrls : r.shortCode # c
            /\ Answers([op |-> "long", shortCode |-> c]) )
          => /\ sent'.resp.kind = "not_found"
             /\ urls' = urls
             /\ items' = items ]_vars

\* C5: when a POST /item returns its acknowledgment and the request
\* answered before it was another acknowledged POST /item with a different
\* payload, both rows are committed in items, each with its own name and
\* description.
BothItemsCommitted ==
    [][ \A w \in Workers :
          ( /\ pc[w] = "item_commit"
            /\ AnswersInFlight(w)
            /\ sent.resp.kind = "success"
            /\ sent.req # req[w] )
          => /\ sent'.resp.kind = "success"
             /\ ItemRow(sent.req) \in Rows(items')
             /\ ItemRow(req[w]) \in Rows(items') ]_vars

\* C5 witness: two POST /item handlers overlapped: the second executed its
\* INSERT before the first committed, the first has returned, and the
\* second, not yet committed, finds both rows committed.
BothItemsCommittedReached ==
    \E w \in Workers :
        /\ nreq = 2
        /\ pc[w] = "item_commit"
        /\ txItems = << >>
        /\ sent.resp.kind = "success"
        /\ sent.req # req[w]
        /\ ItemRow(sent.req) \in Rows(items)
        /\ ItemRow(req[w]) \in Rows(items)

RowsPersist == [][ \A r \in urls : r \in urls' ]_vars

\* C7: a committed row of urls stays as it is, and when the request answered
\* last is a POST /shorten of another longUrl that failed on the code of a
\* committed row, the GET of that code served next still redirects to the
\* row's longUrl.
MappingsPermanent ==
    [][ /\ \A r \in urls : r \in urls'
        /\ \A r \in urls :
             ( /\ sent.resp = Error500("UniqueViolation")
               /\ sent.req.longUrl # r.longUrl
               /\ ShortCode(sent.req.longUrl) = r.shortCode
               /\ Answers([op |-> "long", shortCode |-> r.shortCode]) )
             => sent'.resp = Redirect(r.longUrl) ]_vars

\* C8: no request is rejected because an earlier request failed: no answer
\* is the error of a statement refused by a failed transaction.
FailureIsolated ==
    sent.resp.kind = "error500" => sent.resp.exc # "InFailedSqlTransaction"

\* C9: GET /{shortCode} answers from the row of the code it was asked for: a
\* redirect it returns targets a longUrl stored under that code, and for a
\* code that is committed in urls fetchone() does not fail for want of a
\* result set.
LookupIsolated ==
    [][ \A w \in Workers :
          (pc[w] = "long_fetch" /\ AnswersInFlight(w))
          => /\ sent'.resp.kind = "redirect"
                  => \E r \in VisibleUrls : /\ r.shortCode = req[w].shortCode
                                            /\ r.longUrl = sent'.resp.url
             /\ (\E r \in urls : r.shortCode = req[w].shortCode)
                  => sent'.resp # Error500("ProgrammingError") ]_vars

\* C10: an acknowledged write is committed: after POST /item returned
\* success its row is in items, and after POST /shorten returned a shortCode
\* its row is in urls.
AckedIsDurable ==
    /\ sent.resp.kind = "success" => ItemRow(sent.req) \in Rows(items)
    /\ sent.resp.kind = "shortCode"
         => UrlRow(sent.req, sent.resp.shortCode) \in urls

====
